---- MODULE Spec2Model ----
(***************************************************************************)
(* PDFCrawler (pdf_crawler.py): a same-domain, depth-bounded, recursive    *)
(* crawler that saves every linked PDF into an output directory.           *)
(*                                                                         *)
(* The call stack of crawl_page / download_pdf is a sequence of frames;    *)
(* each action is one block of straight-line code of the frame on top.     *)
(* Strings are sequences of one-character strings.                         *)
(*                                                                         *)
(* UploadSpec is the upload script (upload_pdfs_to_elasticsearch.py) run   *)
(* on the folder the crawler has filled.                                   *)
(***************************************************************************)
EXTENDS Naturals, Sequences, FiniteSets

VARIABLES
    site,             \* the URLs the crawled site links to
    phase,            \* "init" (constructed), "running" (inside start), "done"
    max_depth,        \* argument of start()
    stack,            \* call stack, innermost call last
    visited_urls,     \* self.visited_urls
    downloaded_pdfs,  \* self.downloaded_pdfs
    files,            \* the output directory: records [name, src, complete]
    links_of,         \* href lists the server returned, per parsed page
    content_type,     \* Content-Type of the response, per page that got one
    page_gets,        \* per URL: GETs issued by crawl_page
    pdf_gets,         \* per URL: GETs issued by download_pdf
    dl_calls,         \* per URL: invocations of download_pdf
    failed_pages,     \* URLs whose GET in crawl_page has raised
    failed_pdfs,      \* URLs whose GET in download_pdf has raised
    exceptions,       \* exceptions raised so far, of any kind
    processed,        \* pages whose link loop ran to its end
    budget,           \* hrefs the remaining pages may still carry
    last_io,          \* the most recent of: "sleep", "page", "pdf" ("none" at start)
    uncaught,         \* an exception left crawl_page or download_pdf
    stage,            \* upload script: "idle", "index", "files", "upload", "verified"
    pdf_files,        \* upload script: the files generate_documents has yet to yield
    index             \* the Elasticsearch index: per _id, the filename of its document

vars == <<site, phase, max_depth, stack, visited_urls, downloaded_pdfs, files,
          links_of, content_type, processed, page_gets, pdf_gets, dl_calls,
          failed_pages, failed_pdfs, exceptions, budget, last_io, uncaught,
          stage, pdf_files, index>>

\* groups of variables an action leaves alone
params == <<site, max_depth>>
page_log == <<links_of, content_type, processed, page_gets, failed_pages>>
pdf_log == <<pdf_gets, dl_calls, failed_pdfs>>
upload == <<stage, pdf_files, index>>

-----------------------------------------------------------------------------
(* Bounds of the model *)

MaxDepthArg == 2     \* start(max_depth) is drawn from 0..MaxDepthArg
MaxLinks == 2        \* hrefs on one page
LinkBudget == 4      \* hrefs over the whole site
MaxOldFiles == 1     \* files in the output directory before the run

-----------------------------------------------------------------------------
(* Strings *)

DOT_PDF == <<".", "p", "d", "f">>

LowerChar(c) ==
    CASE c = "P" -> "p" [] c = "D" -> "d" [] c = "F" -> "f" [] c = "R" -> "r"
      [] OTHER -> c

\* str.lower()
Lower(s) == [i \in 1..Len(s) |-> LowerChar(s[i])]

\* str.endswith(t)
EndsWith(s, t) ==
    /\ Len(s) >= Len(t)
    /\ SubSeq(s, Len(s) - Len(t) + 1, Len(s)) = t

\* t in s
Contains(s, t) ==
    \E i \in 1..(Len(s) + 1) :
        /\ i + Len(t) - 1 <= Len(s)
        /\ SubSeq(s, i, i + Len(t) - 1) = t

\* index of the last occurrence of character c in s, 0 if none (str.rfind + 1)
RFind(s, c) ==
    LET hits == {i \in 1..Len(s) : s[i] = c}
    IN  IF hits = {} THEN 0 ELSE CHOOSE i \in hits : \A j \in hits : j <= i

\* os.path.basename: what follows the last "/"
Basename(p) == SubSeq(p, RFind(p, "/") + 1, Len(p))

\* os.path.splitext: the extension starts at the last dot, unless only dots
\* precede it (leading dots belong to the root)
Splitext(p) ==
    LET dot == RFind(p, ".")
    IN  IF dot > 0 /\ \E k \in 1..(dot - 1) : p[k] # "."
        THEN <<SubSeq(p, 1, dot - 1), SubSeq(p, dot, Len(p))>>
        ELSE <<p, <<>> >>

Digit(n) ==
    CASE n = 0 -> "0" [] n = 1 -> "1" [] n = 2 -> "2" [] n = 3 -> "3"
      [] n = 4 -> "4" [] n = 5 -> "5" [] n = 6 -> "6" [] n = 7 -> "7"
      [] n = 8 -> "8" [] OTHER -> "9"

RECURSIVE Decimal(_)
\* str(counter)
Decimal(n) ==
    IF n < 10 THEN <<Digit(n)>> ELSE Decimal(n \div 10) \o <<Digit(n % 10)>>

-----------------------------------------------------------------------------
(* The site: the URLs a page may link to.  Every href of the model is an   *)
(* absolute URL, so the href's text is the URL's text.                     *)

URLS == {"S", "A", "B", "C", "D", "E", "F", "M", "O"}

BASE_URL == "S"

\* a run crawls one of these sites: four pages; two pages and a PDF; one
\* page linking to PDFs with one basename on two hosts, a PDF with an empty
\* basename, a mailto: address and a page of another host
Sites ==
    { {"S", "A", "B", "C"},
      {"S", "A", "D"},
      {"S", "D", "E", "F", "M", "O"} }

\* urlparse(url).netloc
Netloc(u) ==
    CASE u \in {"S", "A", "B", "C", "D", "F"} -> "site"
      [] u \in {"E", "O"} -> "other"
      [] OTHER -> ""                       \* "M" is  mailto:m

\* urlparse(url).path
Path(u) ==
    CASE u = "S" -> <<"/">>
      [] u = "A" -> <<"/", "a">>
      [] u = "B" -> <<"/", "b">>
      [] u = "C" -> <<"/", "c">>
      [] u = "D" -> <<"/", "x", "/", "r", ".", "p", "d", "f">>
      [] u = "E" -> <<"/", "r", ".", "p", "d", "f">>
      [] u = "F" -> <<"/", "d", "/">>
      [] u = "M" -> <<"m">>
      [] OTHER   -> <<"/", "o">>

\* urlparse(url).query, with its "?"
Query(u) == IF u = "F" THEN <<"?", "f", "=", "r", ".", "P", "D", "F">> ELSE <<>>

\* the part of the href that can hold ".pdf" (no netloc of URLS does)
HrefText(u) == Path(u) \o Query(u)

\* urljoin(url, href) of an absolute href
UrlJoin(url, href) == href

-----------------------------------------------------------------------------
(* PDFCrawler's pure methods *)

\* __init__: self.domain
domain == Netloc(BASE_URL)

is_valid_url(url) == Netloc(url) = domain \/ Netloc(url) = ""

get_pdf_filename(url) ==
    LET filename == Basename(Path(url))
    IN  IF EndsWith(filename, DOT_PDF) THEN filename ELSE filename \o DOT_PDF

\* NumberedName with the counter left out of the name
NumberedNameNoCounter(base_name, counter, ext) ==
    base_name \o <<"_">> \o ext

\* f"{base_name}_{counter}{ext}"
NumberedName(base_name, counter, ext) ==
    base_name \o <<"_">> \o Decimal(counter) \o ext

\* IsPdfHref without href.lower()
IsPdfHrefCaseSensitive(href) ==
    \/ EndsWith(HrefText(href), DOT_PDF)
    \/ Contains(HrefText(href), DOT_PDF)

\* the test that sends a link to download_pdf
IsPdfHref(href) ==
    \/ EndsWith(Lower(HrefText(href)), DOT_PDF)
    \/ Contains(Lower(HrefText(href)), DOT_PDF)

\* os.path.exists(filepath)
Exists(dir, name) == \E f \in dir : f.name = name

\* open(filepath, 'wb') followed by f.write: the path now holds this content
WriteFile(dir, name, src, complete) ==
    {f \in dir : f.name # name}
        \cup {[name |-> name, src |-> src, complete |-> complete]}

-----------------------------------------------------------------------------
(* The call stack *)

CrawlFrame(url, depth) ==
    [fn |-> "crawl_page", pc |-> "guard", url |-> url, depth |-> depth,
     links |-> <<>>, i |-> 1, filename |-> <<>>, base_name |-> <<>>,
     ext |-> <<>>, counter |-> 1]

DownloadFrame(pdf_url) ==
    [fn |-> "download_pdf", pc |-> "check", url |-> pdf_url, depth |-> 0,
     links |-> <<>>, i |-> 1, filename |-> <<>>, base_name |-> <<>>,
     ext |-> <<>>, counter |-> 1]

Top == stack[Len(stack)]
Pop(stk) == SubSeq(stk, 1, Len(stk) - 1)
SetTop(stk, frame) == [stk EXCEPT ![Len(stk)] = frame]

At(fn, pc) == stack # <<>> /\ Top.fn = fn /\ Top.pc = pc

\* download_pdf without its try/except
CatchesOnlyCrawl(fn) == fn = "crawl_page"

\* "except Exception as e": both functions wrap their whole body after the
\* guards in try/except
Catches(fn) == fn \in {"crawl_page", "download_pdf"}

RECURSIVE Raise(_)
\* the stack once an exception raised in the innermost call has been caught:
\* frames without a handler are unwound
Raise(stk) ==
    IF stk = <<>> THEN <<>>
    ELSE IF Catches(stk[Len(stk)].fn)
         THEN SetTop(stk, [stk[Len(stk)] EXCEPT !.pc = "except"])
         ELSE Raise(Pop(stk))

\* session.get(url) on a URL with no http(s) netloc raises before any I/O;
\* any other request may fail
MustFail(url) == Netloc(url) = ""
MaySucceed(url) == ~MustFail(url)

\* the pages whose response may carry Content-Type application/pdf
PdfTyped == {"S", "A"}

\* a Content-Type value is its media type followed by its parameters; a
\* response without the header gives '' (headers.get('Content-Type', ''))
APPLICATION_PDF == <<"application/pdf">>
TEXT_HTML == <<"text/html">>

\* the values response.headers.get('Content-Type', '') may have for a page
ContentTypes(u) ==
    (CASE u = "S" -> {APPLICATION_PDF}
       [] u = "A" -> {APPLICATION_PDF \o <<"; charset=binary">>}
       [] OTHER -> {})
      \cup (IF u = "B" THEN {<<>>} ELSE {TEXT_HTML})

\* str.startswith(t)
StartsWith(s, t) == Len(s) >= Len(t) /\ SubSeq(s, 1, Len(t)) = t

\* IsPdfResponse with == in place of startswith
IsPdfResponseExact(ct) == ct = APPLICATION_PDF

\* response.headers.get('Content-Type', '').startswith('application/pdf')
IsPdfResponse(ct) == StartsWith(ct, APPLICATION_PDF)

\* content_type once the response for url has arrived
Received(url, ct) ==
    [v \in DOMAIN content_type \cup {url} |->
        IF v = url THEN ct ELSE content_type[v]]

Range(q) == {q[k] : k \in 1..Len(q)}

\* the href lists a parsed page can carry
RECURSIVE SeqsOf(_, _)
SeqsOf(S, n) ==
    IF n = 0 THEN {<<>>}
    ELSE LET shorter == SeqsOf(S, n - 1)
         IN  shorter \cup {Append(q, x) : q \in {r \in shorter : Len(r) = n - 1}, x \in S}

\* the URLs some parsed page has linked to so far
Linked == {BASE_URL} \cup UNION {Range(links_of[u]) : u \in DOMAIN links_of}

\* the pages A, B and C differ in their names only: a site is taken with its
\* pages named in the order in which the crawl first meets their links
Before(u) == CASE u = "B" -> {"A"} [] u = "C" -> {"B"} [] OTHER -> {}
InOrder(links) ==
    \A k \in 1..Len(links) :
        Before(links[k]) \subseteq Linked \cup {links[j] : j \in 1..(k - 1)}

Min(a, b) == IF a < b THEN a ELSE b

OldNames ==
    { <<"r", ".", "p", "d", "f">>,
      <<".", "p", "d", "f">> }

OldFile(n) == [name |-> n, src |-> "old", complete |-> TRUE]

-----------------------------------------------------------------------------
(* PDFCrawler(base_url, output_dir), before start() *)

Init ==
    /\ site \in Sites
    /\ phase = "init"
    /\ max_depth \in 0..MaxDepthArg
    /\ stack = <<>>
    /\ visited_urls = {}
    /\ downloaded_pdfs = {}
    /\ \E old \in SUBSET OldNames :
          /\ Cardinality(old) <= MaxOldFiles
          /\ files = {OldFile(n) : n \in old}
    /\ links_of = <<>>
    /\ content_type = <<>>
    /\ processed = {}
    /\ page_gets = [u \in URLS |-> 0]
    /\ pdf_gets = [u \in URLS |-> 0]
    /\ dl_calls = [u \in URLS |-> 0]
    /\ failed_pages = {}
    /\ failed_pdfs = {}
    /\ exceptions = 0
    /\ budget = LinkBudget
    /\ last_io = "none"
    /\ uncaught = FALSE
    /\ stage = "idle"
    /\ pdf_files = {}
    /\ index = <<>>

\* start(): the call of crawl_page(self.base_url, max_depth)
Start ==
    /\ phase = "init"
    /\ phase' = "running"
    /\ stack' = <<CrawlFrame(BASE_URL, 0)>>
    /\ UNCHANGED <<params, upload, visited_urls, downloaded_pdfs, files, page_log,
                   pdf_log, exceptions, budget, last_io, uncaught>>

\* start(): crawl_page has returned; the summary is printed
Finish ==
    /\ phase = "running"
    /\ stack = <<>>
    /\ ~uncaught
    /\ phase' = "done"
    /\ UNCHANGED <<params, upload, stack, visited_urls, downloaded_pdfs, files,
                   page_log, pdf_log, exceptions, budget, last_io, uncaught>>

-----------------------------------------------------------------------------
(* crawl_page(url, max_depth, current_depth) *)

\* CrawlGuard without self.visited_urls.add(url)
CrawlGuardNoMark ==
    /\ At("crawl_page", "guard")
    /\ IF Top.depth > max_depth \/ Top.url \in visited_urls
       THEN stack' = Pop(stack)
       ELSE IF ~is_valid_url(Top.url)
       THEN stack' = Pop(stack)
       ELSE stack' = SetTop(stack, [Top EXCEPT !.pc = "get"])
    /\ UNCHANGED <<params, upload, phase, visited_urls, downloaded_pdfs, files,
                   page_log, pdf_log, exceptions, budget, last_io, uncaught>>

\* CrawlGuard with the depth test off by one
CrawlGuardDeeper ==
    /\ At("crawl_page", "guard")
    /\ IF Top.depth > max_depth + 1 \/ Top.url \in visited_urls
       THEN /\ stack' = Pop(stack)
            /\ UNCHANGED visited_urls
       ELSE IF ~is_valid_url(Top.url)
       THEN /\ stack' = Pop(stack)
            /\ UNCHANGED visited_urls
       ELSE /\ visited_urls' = visited_urls \cup {Top.url}
            /\ stack' = SetTop(stack, [Top EXCEPT !.pc = "get"])
    /\ UNCHANGED <<params, upload, phase, downloaded_pdfs, files, page_log, pdf_log,
                   exceptions, budget, last_io, uncaught>>

\* CrawlGuard without the depth test
CrawlGuardNoDepth ==
    /\ At("crawl_page", "guard")
    /\ IF Top.url \in visited_urls
       THEN /\ stack' = Pop(stack)
            /\ UNCHANGED visited_urls
       ELSE IF ~is_valid_url(Top.url)
       THEN /\ stack' = Pop(stack)
            /\ UNCHANGED visited_urls
       ELSE /\ visited_urls' = visited_urls \cup {Top.url}
            /\ stack' = SetTop(stack, [Top EXCEPT !.pc = "get"])
    /\ UNCHANGED <<params, upload, phase, downloaded_pdfs, files, page_log, pdf_log,
                   exceptions, budget, last_io, uncaught>>

\* CrawlGuard with self.visited_urls.add(url) ahead of the guards
CrawlGuardMarkFirst ==
    /\ At("crawl_page", "guard")
    /\ visited_urls' = visited_urls \cup {Top.url}
    /\ IF Top.depth > max_depth \/ Top.url \in visited_urls
       THEN stack' = Pop(stack)
       ELSE IF ~is_valid_url(Top.url)
       THEN stack' = Pop(stack)
       ELSE stack' = SetTop(stack, [Top EXCEPT !.pc = "get"])
    /\ UNCHANGED <<params, upload, phase, downloaded_pdfs, files, page_log, pdf_log,
                   exceptions, budget, last_io, uncaught>>

\* the two guards, then self.visited_urls.add(url)
CrawlGuard ==
    /\ At("crawl_page", "guard")
    /\ IF Top.depth > max_depth \/ Top.url \in visited_urls
       THEN /\ stack' = Pop(stack)
            /\ UNCHANGED visited_urls
       ELSE IF ~is_valid_url(Top.url)
       THEN /\ stack' = Pop(stack)
            /\ UNCHANGED visited_urls
       ELSE /\ visited_urls' = visited_urls \cup {Top.url}
            /\ stack' = SetTop(stack, [Top EXCEPT !.pc = "get"])
    /\ UNCHANGED <<params, upload, phase, downloaded_pdfs, files, page_log, pdf_log,
                   exceptions, budget, last_io, uncaught>>

\* CrawlGetFails that takes the URL out of visited_urls again
CrawlGetFailsRollback ==
    /\ At("crawl_page", "get")
    /\ page_gets' = [page_gets EXCEPT ![Top.url] = @ + 1]
    /\ last_io' = "page"
    /\ failed_pages' = failed_pages \cup {Top.url}
    /\ exceptions' = exceptions + 1
    /\ visited_urls' = visited_urls \ {Top.url}
    /\ stack' = Raise(stack)
    /\ uncaught' = (uncaught \/ stack' = <<>>)
    /\ UNCHANGED <<params, upload, phase, downloaded_pdfs, files, links_of,
                   content_type, processed, pdf_log, budget>>

\* session.get / raise_for_status raises
CrawlGetFails ==
    /\ At("crawl_page", "get")
    /\ page_gets' = [page_gets EXCEPT ![Top.url] = @ + 1]
    /\ last_io' = "page"
    /\ failed_pages' = failed_pages \cup {Top.url}
    /\ exceptions' = exceptions + 1
    /\ stack' = Raise(stack)
    /\ uncaught' = (uncaught \/ stack' = <<>>)
    /\ UNCHANGED <<params, upload, phase, visited_urls, downloaded_pdfs, files,
                   links_of, content_type, processed, pdf_log, budget>>

\* the response's Content-Type starts with application/pdf
CrawlGetPdf ==
    /\ At("crawl_page", "get")
    /\ MaySucceed(Top.url)
    /\ Top.url \in PdfTyped
    /\ \E ct \in ContentTypes(Top.url) :
          /\ IsPdfResponse(ct)
          /\ content_type' = Received(Top.url, ct)
    /\ page_gets' = [page_gets EXCEPT ![Top.url] = @ + 1]
    /\ last_io' = "page"
    /\ stack' = Append(SetTop(stack, [Top EXCEPT !.pc = "return"]),
                       DownloadFrame(Top.url))
    /\ UNCHANGED <<params, upload, phase, visited_urls, downloaded_pdfs, files,
                   links_of, processed, failed_pages, pdf_log, exceptions,
                   budget, uncaught>>

\* any other response, and BeautifulSoup raises on its body
CrawlParseFails ==
    /\ At("crawl_page", "get")
    /\ MaySucceed(Top.url)
    /\ \E ct \in ContentTypes(Top.url) :
          /\ ~IsPdfResponse(ct)
          /\ content_type' = Received(Top.url, ct)
    /\ page_gets' = [page_gets EXCEPT ![Top.url] = @ + 1]
    /\ last_io' = "page"
    /\ exceptions' = exceptions + 1
    /\ stack' = Raise(stack)
    /\ uncaught' = (uncaught \/ stack' = <<>>)
    /\ UNCHANGED <<params, upload, phase, visited_urls, downloaded_pdfs, files,
                   links_of, processed, failed_pages, pdf_log, budget>>

\* any other response, parsed: soup.find_all(['a', 'link'], href=True)
CrawlParse ==
    /\ At("crawl_page", "get")
    /\ MaySucceed(Top.url)
    /\ \E ct \in ContentTypes(Top.url) :
          /\ ~IsPdfResponse(ct)
          /\ content_type' = Received(Top.url, ct)
    /\ page_gets' = [page_gets EXCEPT ![Top.url] = @ + 1]
    /\ last_io' = "page"
    /\ \E links \in SeqsOf(site, Min(MaxLinks, budget)) :
          /\ InOrder(links)
          /\ stack' = SetTop(stack, [Top EXCEPT !.pc = "loop", !.links = links,
                                                !.i = 1])
          /\ links_of' = [v \in DOMAIN links_of \cup {Top.url} |->
                            IF v = Top.url THEN links ELSE links_of[v]]
          /\ budget' = budget - Len(links)
    /\ UNCHANGED <<params, upload, phase, visited_urls, downloaded_pdfs, files,
                   processed, failed_pages, pdf_log, exceptions, uncaught>>

\* the for loop is exhausted: crawl_page returns
CrawlLoopEnd ==
    /\ At("crawl_page", "loop")
    /\ Top.i > Len(Top.links)
    /\ stack' = Pop(stack)
    /\ processed' = processed \cup {Top.url}
    /\ UNCHANGED <<params, upload, phase, visited_urls, downloaded_pdfs, files,
                   links_of, content_type, page_gets, failed_pages, pdf_log,
                   exceptions, budget, last_io, uncaught>>

\* CrawlLinkPdf with a time.sleep(0.5) ahead of the call
CrawlLinkPdfSleeps ==
    /\ At("crawl_page", "loop")
    /\ Top.i <= Len(Top.links)
    /\ LET href == Top.links[Top.i]
           full_url == UrlJoin(Top.url, href)
       IN  /\ IsPdfHref(href)
           /\ last_io' = "sleep"
           /\ stack' = Append(SetTop(stack, [Top EXCEPT !.i = @ + 1]),
                              DownloadFrame(full_url))
    /\ UNCHANGED <<params, upload, phase, visited_urls, downloaded_pdfs, files,
                   page_log, pdf_log, exceptions, budget, uncaught>>

\* one link whose href matches the PDF pattern: self.download_pdf(full_url)
CrawlLinkPdf ==
    /\ At("crawl_page", "loop")
    /\ Top.i <= Len(Top.links)
    /\ LET href == Top.links[Top.i]
           full_url == UrlJoin(Top.url, href)
       IN  /\ IsPdfHref(href)
           /\ stack' = Append(SetTop(stack, [Top EXCEPT !.i = @ + 1]),
                              DownloadFrame(full_url))
    /\ UNCHANGED <<params, upload, phase, visited_urls, downloaded_pdfs, files,
                   page_log, pdf_log, exceptions, budget, last_io, uncaught>>

\* CrawlLinkPage without time.sleep(0.5)
CrawlLinkPageNoSleep ==
    /\ At("crawl_page", "loop")
    /\ Top.i <= Len(Top.links)
    /\ LET href == Top.links[Top.i]
           full_url == UrlJoin(Top.url, href)
       IN  /\ ~IsPdfHref(href)
           /\ is_valid_url(full_url) /\ full_url \notin visited_urls
           /\ stack' = Append(SetTop(stack, [Top EXCEPT !.i = @ + 1]),
                              CrawlFrame(full_url, Top.depth + 1))
    /\ UNCHANGED <<params, upload, phase, visited_urls, downloaded_pdfs, files,
                   page_log, pdf_log, exceptions, budget, last_io, uncaught>>

\* one other link, in scope and not visited: time.sleep(0.5), then recurse
CrawlLinkPage ==
    /\ At("crawl_page", "loop")
    /\ Top.i <= Len(Top.links)
    /\ LET href == Top.links[Top.i]
           full_url == UrlJoin(Top.url, href)
       IN  /\ ~IsPdfHref(href)
           /\ is_valid_url(full_url) /\ full_url \notin visited_urls
           /\ last_io' = "sleep"
           /\ stack' = Append(SetTop(stack, [Top EXCEPT !.i = @ + 1]),
                              CrawlFrame(full_url, Top.depth + 1))
    /\ UNCHANGED <<params, upload, phase, visited_urls, downloaded_pdfs, files,
                   page_log, pdf_log, exceptions, budget, uncaught>>

\* one other link, out of scope or already visited: nothing is done
CrawlLinkSkip ==
    /\ At("crawl_page", "loop")
    /\ Top.i <= Len(Top.links)
    /\ LET href == Top.links[Top.i]
           full_url == UrlJoin(Top.url, href)
       IN  /\ ~IsPdfHref(href)
           /\ ~(is_valid_url(full_url) /\ full_url \notin visited_urls)
           /\ stack' = SetTop(stack, [Top EXCEPT !.i = @ + 1])
    /\ UNCHANGED <<params, upload, phase, visited_urls, downloaded_pdfs, files,
                   page_log, pdf_log, exceptions, budget, last_io, uncaught>>

\* "return" after self.download_pdf(url) of a PDF response
CrawlReturn ==
    /\ At("crawl_page", "return")
    /\ stack' = Pop(stack)
    /\ UNCHANGED <<params, upload, phase, visited_urls, downloaded_pdfs, files,
                   page_log, pdf_log, exceptions, budget, last_io, uncaught>>

\* except Exception: print, and crawl_page returns
CrawlExcept ==
    /\ At("crawl_page", "except")
    /\ stack' = Pop(stack)
    /\ UNCHANGED <<params, upload, phase, visited_urls, downloaded_pdfs, files,
                   page_log, pdf_log, exceptions, budget, last_io, uncaught>>

-----------------------------------------------------------------------------
(* download_pdf(pdf_url) *)

\* if pdf_url in self.downloaded_pdfs: return
DownloadCheck ==
    /\ At("download_pdf", "check")
    /\ dl_calls' = [dl_calls EXCEPT ![Top.url] = @ + 1]
    /\ stack' = IF Top.url \in downloaded_pdfs
                THEN Pop(stack)
                ELSE SetTop(stack, [Top EXCEPT !.pc = "get"])
    /\ UNCHANGED <<params, upload, phase, visited_urls, downloaded_pdfs, files,
                   page_log, pdf_gets, failed_pdfs, exceptions, budget,
                   last_io, uncaught>>

\* session.get / raise_for_status raises
DownloadGetFails ==
    /\ At("download_pdf", "get")
    /\ pdf_gets' = [pdf_gets EXCEPT ![Top.url] = @ + 1]
    /\ last_io' = "pdf"
    /\ failed_pdfs' = failed_pdfs \cup {Top.url}
    /\ exceptions' = exceptions + 1
    /\ stack' = Raise(stack)
    /\ uncaught' = (uncaught \/ stack' = <<>>)
    /\ UNCHANGED <<params, upload, phase, visited_urls, downloaded_pdfs, files,
                   page_log, dl_calls, budget>>

\* the response arrives; filename, filepath, counter, base_name and ext are set
DownloadGet ==
    /\ At("download_pdf", "get")
    /\ MaySucceed(Top.url)
    /\ pdf_gets' = [pdf_gets EXCEPT ![Top.url] = @ + 1]
    /\ last_io' = "pdf"
    /\ LET filename == get_pdf_filename(Top.url)
           parts == Splitext(filename)
       IN  stack' = SetTop(stack, [Top EXCEPT !.pc = "exists",
                                              !.filename = filename,
                                              !.counter = 1,
                                              !.base_name = parts[1],
                                              !.ext = parts[2]])
    /\ UNCHANGED <<params, upload, phase, visited_urls, downloaded_pdfs, files,
                   page_log, dl_calls, failed_pdfs, exceptions, budget,
                   uncaught>>

\* DownloadExists without the while loop: the derived name is used as it is
DownloadExistsNoLoop ==
    /\ At("download_pdf", "exists")
    /\ stack' = SetTop(stack, [Top EXCEPT !.pc = "write"])
    /\ UNCHANGED <<params, upload, phase, visited_urls, downloaded_pdfs, files,
                   page_log, pdf_log, exceptions, budget, last_io, uncaught>>

\* one test of "while os.path.exists(filepath)", and one pass of its body
DownloadExists ==
    /\ At("download_pdf", "exists")
    /\ stack' = IF Exists(files, Top.filename)
                THEN SetTop(stack,
                        [Top EXCEPT !.filename =
                                       NumberedName(Top.base_name, Top.counter, Top.ext),
                                    !.counter = @ + 1])
                ELSE SetTop(stack, [Top EXCEPT !.pc = "write"])
    /\ UNCHANGED <<params, upload, phase, visited_urls, downloaded_pdfs, files,
                   page_log, pdf_log, exceptions, budget, last_io, uncaught>>

\* DownloadWrite without self.downloaded_pdfs.add(pdf_url)
DownloadWriteNoRecord ==
    /\ At("download_pdf", "write")
    /\ files' = WriteFile(files, Top.filename, Top.url, TRUE)
    /\ stack' = Pop(stack)
    /\ UNCHANGED <<params, upload, phase, visited_urls, downloaded_pdfs, page_log,
                   pdf_log, exceptions, budget, last_io, uncaught>>

\* DownloadWrite that keeps only the last URL in downloaded_pdfs
DownloadWriteReset ==
    /\ At("download_pdf", "write")
    /\ files' = WriteFile(files, Top.filename, Top.url, TRUE)
    /\ downloaded_pdfs' = {Top.url}
    /\ stack' = Pop(stack)
    /\ UNCHANGED <<params, upload, phase, visited_urls, page_log, pdf_log, exceptions,
                   budget, last_io, uncaught>>

\* the file is written and the URL recorded; download_pdf returns
DownloadWrite ==
    /\ At("download_pdf", "write")
    /\ files' = WriteFile(files, Top.filename, Top.url, TRUE)
    /\ downloaded_pdfs' = downloaded_pdfs \cup {Top.url}
    /\ stack' = Pop(stack)
    /\ UNCHANGED <<params, upload, phase, visited_urls, page_log, pdf_log, exceptions,
                   budget, last_io, uncaught>>

\* open() raises (nothing is created), or f.write raises (the file is left
\* incomplete)
DownloadWriteFails ==
    /\ At("download_pdf", "write")
    /\ exceptions' = exceptions + 1
    /\ \/ UNCHANGED files
       \/ files' = WriteFile(files, Top.filename, Top.url, FALSE)
    /\ stack' = Raise(stack)
    /\ uncaught' = (uncaught \/ stack' = <<>>)
    /\ UNCHANGED <<params, upload, phase, visited_urls, downloaded_pdfs, page_log,
                   pdf_log, budget, last_io>>

\* except Exception: print, and download_pdf returns
DownloadExcept ==
    /\ At("download_pdf", "except")
    /\ stack' = Pop(stack)
    /\ UNCHANGED <<params, upload, phase, visited_urls, downloaded_pdfs, files,
                   page_log, pdf_log, exceptions, budget, last_io, uncaught>>

-----------------------------------------------------------------------------

Next ==
    \/ Start
    \/ CrawlGuard
    \/ CrawlGetFails
    \/ CrawlGetPdf
    \/ CrawlParseFails
    \/ CrawlParse
    \/ CrawlLoopEnd
    \/ CrawlLinkPdf
    \/ CrawlLinkPage
    \/ CrawlLinkSkip
    \/ CrawlReturn
    \/ CrawlExcept
    \/ DownloadCheck
    \/ DownloadGetFails
    \/ DownloadGet
    \/ DownloadExists
    \/ DownloadWrite
    \/ DownloadWriteFails
    \/ DownloadExcept
    \/ Finish

Spec == Init /\ [][Next]_vars

\* the interpreter runs the single thread until start() returns
FairSpec == Spec /\ WF_vars(Next)

-----------------------------------------------------------------------------
(* upload_pdfs_to_elasticsearch.py: the script that indexes the files of   *)
(* the crawler's output directory (PDF_FOLDER is the crawler's OUTPUT_DIR) *)

MaxUploadFiles == 3  \* files in the folder when the script runs

RECURSIVE Replace(_, _, _)
\* str.replace(old, new) for a non-empty old: every occurrence, left to right
Replace(s, old, new) ==
    IF Len(s) < Len(old) THEN s
    ELSE IF SubSeq(s, 1, Len(old)) = old
         THEN new \o Replace(SubSeq(s, Len(old) + 1, Len(s)), old, new)
         ELSE <<Head(s)>> \o Replace(Tail(s), old, new)

\* filename.replace('.pdf', '').replace(' ', '-').lower()
generate_document_id(filename) ==
    Lower(Replace(Replace(filename, DOT_PDF, <<>>), <<" ">>, <<"-">>))

\* file names the crawler leaves in the folder: from the URL paths /r.pdf,
\* /R.pdf, "/a b.pdf", /a-b.pdf and /r.pdf.pdf, and the collision names
\* r_1.pdf and .pdf_1
UploadNames ==
    { <<"r", ".", "p", "d", "f">>,
      <<"R", ".", "p", "d", "f">>,
      <<"r", "_", "1", ".", "p", "d", "f">>,
      <<"a", " ", "b", ".", "p", "d", "f">>,
      <<"a", "-", "b", ".", "p", "d", "f">>,
      <<"r", ".", "p", "d", "f", ".", "p", "d", "f">>,
      <<".", "p", "d", "f", "_", "1">> }

\* the folder as an earlier crawl has left it; the script is idle
UploadInit ==
    /\ site = {BASE_URL}
    /\ phase = "done"
    /\ max_depth = 0
    /\ stack = <<>>
    /\ visited_urls = {}
    /\ downloaded_pdfs = {}
    /\ \E names \in SUBSET UploadNames :
          /\ Cardinality(names) <= MaxUploadFiles
          /\ files = {OldFile(n) : n \in names}
    /\ links_of = <<>>
    /\ content_type = <<>>
    /\ processed = {}
    /\ page_gets = [u \in URLS |-> 0]
    /\ pdf_gets = [u \in URLS |-> 0]
    /\ dl_calls = [u \in URLS |-> 0]
    /\ failed_pages = {}
    /\ failed_pdfs = {}
    /\ exceptions = 0
    /\ budget = 0
    /\ last_io = "none"
    /\ uncaught = FALSE
    /\ stage = "idle"
    /\ pdf_files = {}
    /\ index = <<>>

\* what the script leaves alone: the crawler's state, the folder included
crawler == <<site, phase, max_depth, stack, visited_urls, downloaded_pdfs,
             files, page_log, pdf_log, exceptions, budget, last_io, uncaught>>

\* main(): the script is started (client and pipeline set up)
UploadMain ==
    /\ stage \in {"idle", "verified"}
    /\ stage' = "index"
    /\ UNCHANGED <<crawler, pdf_files, index>>

\* create_index_with_mapping: an existing index is deleted and recreated
\* (answer "y") or kept (any other answer); a missing one is created
CreateIndex ==
    /\ stage = "index"
    /\ stage' = "files"
    /\ index' \in {index, <<>>}
    /\ UNCHANGED <<crawler, pdf_files>>

\* get_pdf_files: list(Path(PDF_FOLDER).glob("*.pdf"))
GetPdfFiles ==
    /\ stage = "files"
    /\ stage' = "upload"
    /\ pdf_files' = {f.name : f \in {g \in files : EndsWith(g.name, DOT_PDF)}}
    /\ UNCHANGED <<crawler, index>>

\* the index once a bulk "index" action for doc_id has been applied: the
\* document is created, or replaces the one that has this _id
IndexDocument(idx, doc_id, filename) ==
    [d \in DOMAIN idx \cup {doc_id} |-> IF d = doc_id THEN filename ELSE idx[d]]

\* generate_documents yields the document of one file, in the order of the
\* glob, and streaming_bulk indexes it
UploadDocument ==
    /\ stage = "upload"
    /\ \E pdf_file \in pdf_files :
          /\ pdf_files' = pdf_files \ {pdf_file}
          /\ index' = IndexDocument(index, generate_document_id(pdf_file), pdf_file)
    /\ UNCHANGED <<crawler, stage>>

\* the file cannot be read (generate_documents prints and goes on), or the
\* bulk action fails (raise_on_error=False): no document is indexed
UploadDocumentFails ==
    /\ stage = "upload"
    /\ \E pdf_file \in pdf_files : pdf_files' = pdf_files \ {pdf_file}
    /\ UNCHANGED <<crawler, stage, index>>

\* verify_documents: every file has been yielded; the documents are counted
VerifyDocuments ==
    /\ stage = "upload"
    /\ pdf_files = {}
    /\ stage' = "verified"
    /\ UNCHANGED <<crawler, pdf_files, index>>

UploadNext ==
    \/ UploadMain
    \/ CreateIndex
    \/ GetPdfFiles
    \/ UploadDocument
    \/ UploadDocumentFails
    \/ VerifyDocuments

UploadSpec == UploadInit /\ [][UploadNext]_vars

-----------------------------------------------------------------------------
(* Properties *)

\* the files of the output directory that hold (part of) the body of url
FilesOf(url) == {f \in files : f.src = url}
CompleteFilesOf(url) == {f \in FilesOf(url) : f.complete}

\* a download_pdf(url) call is in progress
Downloading(url) ==
    \E k \in 1..Len(stack) : stack[k].fn = "download_pdf" /\ stack[k].url = url

\* C1: crawl_page on a URL already in visited_urls returns at once and changes
\* nothing, a link to a visited URL is skipped without a request, and no URL
\* is fetched as a page more than once in a run.
C1_VisitedIsNoOp ==
    /\ [](\A u \in URLS : page_gets[u] <= 1)
    /\ [][(At("crawl_page", "guard") /\ Top.url \in visited_urls)
            => /\ stack' = Pop(stack)
               /\ UNCHANGED <<visited_urls, downloaded_pdfs, files, page_gets,
                              pdf_gets>>]_vars
    /\ [][(/\ At("crawl_page", "loop")
           /\ Top.i <= Len(Top.links)
           /\ ~IsPdfHref(Top.links[Top.i])
           /\ Top.links[Top.i] \in visited_urls)
            => /\ Len(stack') = Len(stack)
               /\ UNCHANGED <<visited_urls, downloaded_pdfs, files, page_gets,
                              pdf_gets>>]_vars

\* a page other than the seed has just skipped a link back to the seed
C1_Witness ==
    /\ At("crawl_page", "loop")
    /\ Top.url # BASE_URL
    /\ Top.depth = 2
    /\ Top.i > 1
    /\ Top.links[Top.i - 1] = BASE_URL
    /\ page_gets[BASE_URL] = 1

\* C2 as stated: two completed invocations of download_pdf on one URL have
\* written exactly one file for it.
C2_TwoCallsOneFile ==
    \A u \in URLS :
        (dl_calls[u] >= 2 /\ ~Downloading(u)) => Cardinality(FilesOf(u)) = 1

\* C2, amended: a URL in downloaded_pdfs has exactly one complete file, no URL
\* ever has two, and download_pdf on a URL in downloaded_pdfs issues no
\* request and writes nothing.
C2_DownloadedIsNoOp ==
    /\ [](\A u \in URLS :
            /\ Cardinality(CompleteFilesOf(u)) <= 1
            /\ u \in downloaded_pdfs => Cardinality(CompleteFilesOf(u)) = 1)
    /\ [][(At("download_pdf", "check") /\ Top.url \in downloaded_pdfs)
            => /\ stack' = Pop(stack)
               /\ UNCHANGED <<files, pdf_gets, page_gets, downloaded_pdfs>>]_vars
    /\ [][\A u \in downloaded_pdfs :
            pdf_gets'[u] = pdf_gets[u] /\ FilesOf(u)' = FilesOf(u)]_vars

\* download_pdf was invoked twice on one URL, the first call saved it and the
\* second has returned
C2_Witness ==
    \E u \in URLS :
        /\ dl_calls[u] = 2
        /\ ~Downloading(u)
        /\ u \in downloaded_pdfs
        /\ pdf_gets[u] = 1
        /\ Cardinality(FilesOf(u)) = 1

\* C3 as stated: once a fetch of a URL has failed, no request is issued for
\* that URL again.
C3_NoRequestAfterFailure ==
    [][\A u \in failed_pages \cup failed_pdfs :
          page_gets'[u] = page_gets[u] /\ pdf_gets'[u] = pdf_gets[u]]_vars

\* C3, amended: a URL whose page fetch failed stays in visited_urls and is never
\* fetched as a page again; a failed PDF fetch adds nothing to downloaded_pdfs,
\* and download_pdf requests a URL exactly when it is not in downloaded_pdfs.
C3_NoPageRetry ==
    /\ [](failed_pages \subseteq visited_urls)
    /\ [][\A u \in failed_pages : page_gets'[u] = page_gets[u]]_vars
    /\ [][failed_pdfs' # failed_pdfs => downloaded_pdfs' = downloaded_pdfs]_vars
    /\ [][At("download_pdf", "check")
            => (Top.url \notin downloaded_pdfs
                  <=> (stack' # Pop(stack) /\ stack'[Len(stack')].pc = "get"))]_vars

\* a page links twice to a URL whose page fetch failed the first time, and the
\* second link has been passed without a request
C3_Witness ==
    /\ At("crawl_page", "loop")
    /\ Top.i = 3
    /\ Top.links[1] = Top.links[2]
    /\ Top.links[2] \in failed_pages
    /\ page_gets[Top.links[2]] = 1

\* a PDF whose download failed is requested again from a later link
C3_RetryWitness ==
    \E u \in failed_pdfs : pdf_gets[u] = 2 /\ u \in downloaded_pdfs

\* C4 as stated: with max_depth = 0 no request is issued for any URL but the
\* seed.
C4_OnlySeedRequested ==
    max_depth = 0 =>
        \A u \in URLS \ {BASE_URL} : page_gets[u] = 0 /\ pdf_gets[u] = 0

\* C4, amended: with max_depth = 0 the seed is the only URL that enters
\* visited_urls or is fetched as a page (crawl_page called on a link returns
\* at its depth guard), and the only other requests are the downloads of the
\* PDF links of the seed page.
C4_OnlySeedCrawled ==
    max_depth = 0 =>
        /\ visited_urls \subseteq {BASE_URL}
        /\ \A u \in URLS \ {BASE_URL} :
              /\ page_gets[u] = 0
              /\ pdf_gets[u] > 0 =>
                    /\ IsPdfHref(u)
                    /\ BASE_URL \in DOMAIN links_of
                    /\ u \in Range(links_of[BASE_URL])
        /\ \A k \in 1..Len(stack) :
              (stack[k].fn = "crawl_page" /\ stack[k].url # BASE_URL)
                  => stack[k].pc = "guard"

\* max_depth = 0, the seed page linked to a page and to a PDF: the PDF was
\* downloaded, the page was not fetched
C4_Witness ==
    /\ max_depth = 0
    /\ phase = "done"
    /\ BASE_URL \in DOMAIN links_of
    /\ \E p, d \in Range(links_of[BASE_URL]) :
          /\ ~IsPdfHref(p) /\ is_valid_url(p) /\ p # BASE_URL
          /\ page_gets[p] = 0
          /\ d \in downloaded_pdfs /\ pdf_gets[d] = 1

\* C5 as stated: every URL that enters visited_urls, and every URL fetched as
\* a page, has the seed's host.
C5_VisitedOnSeedHost ==
    \A u \in URLS :
        (u \in visited_urls \/ page_gets[u] > 0) => Netloc(u) = domain

IsFirstFreeName(n, derived, dir) ==
    LET base_name == Splitext(derived)[1]
        ext == Splitext(derived)[2]
    IN  IF ~Exists(dir, derived)
        THEN n = derived
        ELSE \E k \in 1..(Cardinality(dir) + 1) :
                /\ n = NumberedName(base_name, k, ext)
                /\ ~Exists(dir, n)
                /\ \A j \in 1..(k - 1) : Exists(dir, NumberedName(base_name, j, ext))

\* C7: a step never removes or changes a file of the output directory, two
\* files never share a name, and a new file is saved under the derived name
\* or, when that is taken, the first free numbered name.
C7_NoOverwrite ==
    /\ [](\A f, g \in files : f.name = g.name => f = g)
    /\ [][files \subseteq files']_vars
    /\ [][\A f \in files' \ files :
            IsFirstFreeName(f.name, get_pdf_filename(f.src), files)]_vars

\* r.pdf was there before the run; the two downloads named r.pdf were saved as
\* r_1.pdf and r_2.pdf
C7_Witness ==
    /\ OldFile(<<"r", ".", "p", "d", "f">>) \in files
    /\ \E f, g \in files :
          /\ f.src # "old" /\ g.src # "old" /\ f.src # g.src
          /\ f.name = <<"r", "_", "1", ".", "p", "d", "f">>
          /\ g.name = <<"r", "_", "2", ".", "p", "d", "f">>
          /\ f.complete /\ g.complete

\* C8 as stated: every file of the output directory has a name ending in .pdf.
C8_NamesEndInPdf ==
    \A f \in files : EndsWith(f.name, DOT_PDF)

\* the most files the output directory can hold: those of before the run and
\* one per download_pdf call (one per href, and one for the seed)
TotalFiles == MaxOldFiles + LinkBudget + 1

\* what one frame still has to do, at most
DownloadSteps == TotalFiles + 7
LinkSteps == DownloadSteps + 1
PageSteps == MaxLinks * LinkSteps + 2

FrameSteps(f) ==
    IF f.fn = "crawl_page"
    THEN CASE f.pc = "guard" -> 1
           [] f.pc = "get" -> PageSteps
           [] f.pc = "loop" -> (Len(f.links) + 1 - f.i) * LinkSteps + 1
           [] OTHER -> 1
    ELSE CASE f.pc = "check" -> DownloadSteps
           [] f.pc = "get" -> DownloadSteps - 1
           [] f.pc = "exists" -> (TotalFiles + 4) - f.counter
           [] f.pc = "write" -> 2
           [] OTHER -> 1

RECURSIVE StackSteps(_)
StackSteps(stk) ==
    IF stk = <<>> THEN 0 ELSE FrameSteps(stk[Len(stk)]) + StackSteps(Pop(stk))

\* a bound on the steps start() still has to take
Variant ==
    PageSteps * Cardinality(URLS \ visited_urls)
      + StackSteps(stack)
      + (CASE phase = "init" -> 3 [] phase = "running" -> 1 [] OTHER -> 0)

\* C9: start() returns. Every step of the run lowers a natural-number bound
\* on the steps left, the collision counter never passes the number of files
\* in the directory by more than one, and the run reaches the return of
\* start().
C9_Terminates ==
    /\ [](\A k \in 1..Len(stack) :
            /\ stack[k].counter <= Cardinality(files) + 1
            /\ Cardinality(files) <= TotalFiles)
    /\ [][Variant' < Variant]_vars
    /\ <>(phase = "done")

\* start() has returned from a run in which the collision loop went round for
\* the derived name .pdf
C9_Witness ==
    /\ phase = "done"
    /\ \E f \in files :
          /\ f.src # "old"
          /\ f.name = <<".", "p", "d", "f", "_", "1">>

RECURSIVE PagesWithin(_)
\* the URLs a chain of at most d in-scope page links leads to from the seed
PagesWithin(d) ==
    IF d = 0 THEN {BASE_URL}
    ELSE LET nearer == PagesWithin(d - 1)
         IN  nearer \cup
               {v \in URLS : /\ ~IsPdfHref(v)
                             /\ is_valid_url(v)
                             /\ \E u \in nearer \cap DOMAIN links_of :
                                   v \in Range(links_of[u])}

\* C10 as stated: when start() has returned from a run without a failure,
\* every page within max_depth in-scope page links of the seed is in
\* visited_urls, and its links, if it was parsed, have been processed.
C10_CompleteWithinDepth ==
    (phase = "done" /\ exceptions = 0) =>
        \A u \in PagesWithin(max_depth) :
            /\ u \in visited_urls
            /\ u \in DOMAIN links_of => u \in processed

\* the PDF pattern of a link, as the claims word it: the href contains .pdf,
\* in any letter case
MatchesPdfPattern(href) == Contains(Lower(HrefText(href)), DOT_PDF)

\* C11: crawl_page issues a page fetch only at a depth of at most max_depth,
\* a URL enters visited_urls only in a call at a depth in 0..max_depth, and
\* a link that matches the PDF pattern is handed to download_pdf at any
\* depth of the page that holds it, max_depth included.
C11_DepthBound ==
    /\ [](\A k \in 1..Len(stack) :
            (stack[k].fn = "crawl_page" /\ stack[k].pc # "guard")
                => stack[k].depth \in 0..max_depth)
    /\ [][\A u \in URLS :
            page_gets'[u] # page_gets[u]
                => At("crawl_page", "get") /\ Top.url = u /\ Top.depth <= max_depth]_vars
    /\ [][visited_urls' # visited_urls
            => /\ At("crawl_page", "guard")
               /\ Top.depth \in 0..max_depth
               /\ visited_urls' = visited_urls \cup {Top.url}]_vars
    /\ [][(/\ At("crawl_page", "loop")
           /\ Top.i <= Len(Top.links)
           /\ MatchesPdfPattern(Top.links[Top.i]))
            => stack' = Append(SetTop(stack, [Top EXCEPT !.i = @ + 1]),
                               DownloadFrame(Top.links[Top.i]))]_vars

\* a page at depth max_depth >= 1 held a PDF link, which download_pdf has
\* saved
C11_Witness ==
    /\ max_depth >= 1
    /\ At("crawl_page", "loop")
    /\ Top.depth = max_depth
    /\ Top.i > 1
    /\ MatchesPdfPattern(Top.links[Top.i - 1])
    /\ Top.links[Top.i - 1] \in downloaded_pdfs
    /\ pdf_gets[Top.links[Top.i - 1]] = 1

\* C12: visited_urls and downloaded_pdfs are empty before start(), neither
\* ever loses an element, and a page fetch is issued only for a URL that is
\* in visited_urls before the request and after it.
C12_ClaimBeforeFetch ==
    /\ [](phase = "init" => (visited_urls = {} /\ downloaded_pdfs = {}))
    /\ [][\A u \in URLS :
            page_gets'[u] # page_gets[u]
                => u \in visited_urls /\ u \in visited_urls']_vars
    /\ [][/\ visited_urls \subseteq visited_urls'
          /\ downloaded_pdfs \subseteq downloaded_pdfs']_vars

\* start() has returned; one page fetch failed, one page was parsed, a PDF
\* was saved, and every fetched URL is still in visited_urls
C12_Witness ==
    /\ phase = "done"
    /\ failed_pages # {}
    /\ downloaded_pdfs # {}
    /\ \A u \in URLS : page_gets[u] > 0 => u \in visited_urls
    /\ \E u \in processed : u \notin failed_pages

\* C13: a crawl_page call stopped by a guard returns at once: no request, no
\* file, and visited_urls and downloaded_pdfs as they were, so the rejected
\* URL is in visited_urls afterwards only if it was before.
C13_GuardStopIsNoOp ==
    [][(/\ At("crawl_page", "guard")
        /\ \/ Top.depth > max_depth
           \/ Top.url \in visited_urls
           \/ ~is_valid_url(Top.url))
        => /\ stack' = Pop(stack)
           /\ UNCHANGED <<visited_urls, downloaded_pdfs, files, page_gets,
                          pdf_gets, last_io>>]_vars

\* crawl_page has just returned at its depth guard for an in-scope page that
\* is not in visited_urls, and no request was made for it
C13_Witness ==
    /\ max_depth >= 1
    /\ At("crawl_page", "loop")
    /\ Top.i > 1
    /\ LET u == Top.links[Top.i - 1]
       IN  /\ ~MatchesPdfPattern(u)
           /\ is_valid_url(u)
           /\ u \notin visited_urls
           /\ page_gets[u] = 0 /\ pdf_gets[u] = 0
    /\ last_io = "sleep"

\* C14: a link that matches the PDF pattern is handed to download_pdf with
\* its resolved URL and nothing else is done for it; any other link is
\* recursed into at depth + 1 when its resolved URL is in scope and not in
\* visited_urls, and is otherwise passed without a request. No URL that
\* matches the pattern is ever crawled as a page, the seed apart.
C14_LinkDispatch ==
    /\ [][(At("crawl_page", "loop") /\ Top.i <= Len(Top.links))
            => LET href == Top.links[Top.i]
                   full_url == UrlJoin(Top.url, href)
                   advanced == SetTop(stack, [Top EXCEPT !.i = @ + 1])
               IN  /\ UNCHANGED <<visited_urls, downloaded_pdfs, files,
                                  page_gets, pdf_gets>>
                   /\ IF MatchesPdfPattern(href)
                      THEN /\ stack' = Append(advanced, DownloadFrame(full_url))
                           /\ last_io' = last_io
                      ELSE IF is_valid_url(full_url) /\ full_url \notin visited_urls
                      THEN stack' = Append(advanced,
                                           CrawlFrame(full_url, Top.depth + 1))
                      ELSE /\ stack' = advanced
                           /\ last_io' = last_io]_vars
    /\ [](\A u \in URLS \ {BASE_URL} :
            MatchesPdfPattern(u)
                => /\ page_gets[u] = 0
                   /\ u \notin visited_urls
                   /\ \A k \in 1..Len(stack) :
                         stack[k].url = u => stack[k].fn = "download_pdf")

\* the seed page linked to an in-scope URL with .PDF in its query string and
\* to a page of another host: the first was saved by download_pdf without a
\* page fetch, the second was passed without a request
C14_Witness ==
    /\ phase = "done"
    /\ BASE_URL \in DOMAIN links_of
    /\ links_of[BASE_URL] = <<"F", "O">>
    /\ is_valid_url("F")
    /\ "F" \in downloaded_pdfs
    /\ page_gets["F"] = 0
    /\ "F" \notin visited_urls
    /\ page_gets["O"] = 0 /\ pdf_gets["O"] = 0
    /\ "O" \notin visited_urls

\* C15: a page whose response has a Content-Type starting with
\* application/pdf is handed to download_pdf and crawl_page then returns: the
\* body is never parsed, so the page gets no links. A page with any other
\* Content-Type, or with none, is parsed: its links are extracted, or the
\* parser raises.
C15_PdfResponseNotParsed ==
    /\ [](\A u \in DOMAIN content_type :
            StartsWith(content_type[u], <<"application/pdf">>)
                => /\ u \notin DOMAIN links_of
                   /\ \A k \in 1..Len(stack) :
                         (stack[k].fn = "crawl_page" /\ stack[k].url = u)
                             => stack[k].pc = "return" /\ stack[k].links = <<>>
                   /\ dl_calls[u] >= 1 \/ (Top = DownloadFrame(u)))
    /\ [][\A u \in DOMAIN content_type' \ DOMAIN content_type :
            IF StartsWith(content_type'[u], <<"application/pdf">>)
            THEN stack' = Append(SetTop(stack, [Top EXCEPT !.pc = "return"]),
                                 DownloadFrame(u))
            ELSE \/ /\ u \in DOMAIN links_of'
                    /\ stack' = SetTop(stack, [Top EXCEPT !.pc = "loop",
                                                          !.links = links_of'[u]])
                 \/ /\ exceptions' = exceptions + 1
                    /\ stack' = SetTop(stack, [Top EXCEPT !.pc = "except"])]_vars
    /\ [][At("crawl_page", "return")
            => /\ stack' = Pop(stack)
               /\ UNCHANGED <<visited_urls, downloaded_pdfs, files, links_of,
                              page_gets, pdf_gets, dl_calls>>]_vars

\* start() has returned: a linked page answered with
\* "application/pdf; charset=binary" and was saved without being parsed, and
\* a page that answered without a Content-Type was parsed and its links
\* processed
C15_Witness ==
    /\ phase = "done"
    /\ "A" \in DOMAIN content_type
    /\ content_type["A"] = <<"application/pdf", "; charset=binary">>
    /\ "A" \in downloaded_pdfs
    /\ "A" \notin DOMAIN links_of
    /\ "B" \in DOMAIN content_type
    /\ content_type["B"] = <<>>
    /\ "B" \in processed
    /\ links_of["B"] # <<>>

\* a call of fn has just been made
Calls(fn) ==
    /\ Len(stack') = Len(stack) + 1
    /\ stack'[Len(stack')].fn = fn

\* C16: the seed's page fetch is the first I/O of the run; every other page
\* fetch has a politeness delay as the last I/O before it, so no request
\* lies between the two; every recursive call of crawl_page follows a delay;
\* the call of download_pdf adds no delay, and download_pdf never sleeps.
C16_PacingOrder ==
    /\ [][\A u \in URLS :
            page_gets'[u] # page_gets[u]
                => IF u = BASE_URL THEN last_io = "none" ELSE last_io = "sleep"]_vars
    /\ [][(phase = "running" /\ Calls("crawl_page")) => last_io' = "sleep"]_vars
    /\ [][Calls("download_pdf") => last_io' \in {last_io, "page"}]_vars
    /\ [][(stack # <<>> /\ Top.fn = "download_pdf")
            => last_io' \in {last_io, "pdf"}]_vars

\* a PDF has been saved, and the request for a linked page is about to be
\* issued with the delay as the last I/O before it
C16_Witness ==
    /\ At("crawl_page", "get")
    /\ Top.url # BASE_URL
    /\ page_gets[Top.url] = 0
    /\ last_io = "sleep"
    /\ downloaded_pdfs # {}

\* the request of a PDF download is about to be issued, and the last I/O
\* before it is the delay of a recursive call that returned at its depth guard
C16_DelayThenPdf ==
    /\ At("download_pdf", "get")
    /\ last_io = "sleep"

\* the files the run has created in the output directory
WrittenFiles == {f \in files : f.src # "old"}

\* C17 as stated: each URL in downloaded_pdfs has exactly one file written
\* for it, two URLs of downloaded_pdfs never share a file path, a URL is in
\* downloaded_pdfs only after its request succeeded, and when start() reports
\* len(downloaded_pdfs) it is the number of files the run has written.
C17_FilesMatchDownloaded ==
    /\ \A u \in downloaded_pdfs :
          /\ Cardinality(FilesOf(u)) = 1
          /\ pdf_gets[u] >= 1
    /\ \A f, g \in WrittenFiles :
          (f.src \in downloaded_pdfs /\ g.src \in downloaded_pdfs /\ f.src # g.src)
              => f.name # g.name
    /\ phase = "done" => Cardinality(WrittenFiles) = Cardinality(downloaded_pdfs)

\* C18 as stated: the files the script uploads have pairwise distinct
\* document IDs, so no document of the index is ever replaced by the
\* document of another file.
C18_UniqueDocumentIds ==
    /\ [](\A f, g \in pdf_files :
            f # g => generate_document_id(f) # generate_document_id(g))
    /\ [][\A d \in DOMAIN index \cap DOMAIN index' : index'[d] = index[d]]_vars

====
